---- MODULE Spec2Model ----
(***************************************************************************)
(* The GC heap of src/GC: a fixed arena, a bump offset m_size, and two     *)
(* vectors of chunk descriptors (m_allocated_chunks, m_freed_chunks).      *)
(* Two implementations of the same class are modelled side by side:       *)
(*   impl = "heap" : src/GC/heap.cpp     (collect = mark, compact, free)   *)
(*   impl = "lib"  : src/GC/lib/heap.cpp (collect = mark, sweep, free,     *)
(*                                        plus collect(flags))             *)
(* Addresses are absolute byte addresses.  A descriptor is a heap object   *)
(* with an identity (the vectors hold pointers to it), so the vectors hold *)
(* descriptor ids and the descriptor contents live in the function chunk.  *)
(***************************************************************************)
EXTENDS Integers, Sequences, FiniteSets, TLC

\* ---- bounds of the model ----
HEAP_SIZE == 10         \* arena size in bytes (scaled down from heap.hpp:10)
MaxAllocs == 3          \* number of alloc calls in one run
StackWords == 1         \* words of the mutator's stack that hold roots

\* ---- platform ----
WordSize == 8           \* sizeof(uintptr_t)
ArenaBase == 64         \* m_heap, the address malloc(HEAP_SIZE) returned
Null == 0

\* The native stack lies above the arena; frame 0 of collect is StackStart.
StackStart == ArenaBase + WordSize * (HEAP_SIZE + 8)

MARK == 1
SWEEP == 2
MARK_SWEEP == 4
FREE == 8
COLLECT_ALL == 15

Impls == {"heap", "lib"}
\* request sizes: invalid (0), small, half the arena, all of it, too much
Sizes == {0, 1, 2, HEAP_SIZE \div 2, HEAP_SIZE, HEAP_SIZE + 1}
\* masks passed to collect(flags): every subset of the three phases the code
\* tests, the MARK_SWEEP bit alone, and COLLECT_ALL
Flags == {0, MARK, SWEEP, MARK + SWEEP, MARK_SWEEP, FREE, MARK + FREE,
          SWEEP + FREE, MARK + SWEEP + FREE, COLLECT_ALL}

VARIABLES
  impl,                 \* which translation unit is linked
  m_size,               \* Heap::m_size
  chunk,                \* descriptor id -> [start, size, marked]
  m_allocated_chunks,   \* vector<Chunk*>, as a sequence of ids
  m_freed_chunks,       \* vector<Chunk*>, as a sequence of ids
  deleted,              \* ids of descriptors that were passed to delete
  stack,                \* the words of the mutator's stack
  status,               \* "running", or "aborted" after a failed assert / crash
  last,                 \* the call that made the last step
  handed,               \* history: <<[addr, size]>> of every successful alloc
  collected,            \* history: TRUE once any collect has run
  scan                  \* the activation of Heap::mark in progress (SpecMark)

vars == <<impl, m_size, chunk, m_allocated_chunks, m_freed_chunks, deleted,
          stack, status, last, handed, collected, scan>>

\* ---- helpers ----
Bit(flags, b) == (flags \div b) % 2 = 1

RemoveAt(s, i) == SubSeq(s, 1, i - 1) \o SubSeq(s, i + 1, Len(s))

Range(s) == {s[i] : i \in 1..Len(s)}

MinOf(S) == CHOOSE x \in S : \A y \in S : x <= y

\* the total size of the chunks whose ids are in s
RECURSIVE SumSizes(_, _)
SumSizes(ch, s) == IF s = <<>> THEN 0 ELSE ch[Head(s)].size + SumSizes(ch, Tail(s))

\* sizeof(*Chunk::start).  heap.cpp assigns (void *)m_heap + m_size and a char*
\* to start, so there start is a byte pointer; lib/heap.cpp assigns
\* (uintptr_t *)m_heap + m_size, so there start counts in words.
StartElem(im) == IF im = "lib" THEN WordSize ELSE 1

\* chunk->start + chunk->size, as the compiler scales it
ChunkEnd(im, c) == c.start + StartElem(im) * c.size

\* The heap object as one value, so that the methods compose.
TheHeap ==
  [m_size |-> m_size, chunk |-> chunk, allocated |-> m_allocated_chunks,
   freed |-> m_freed_chunks, deleted |-> deleted]

Install(h) ==
  /\ m_size' = h.m_size
  /\ chunk' = h.chunk
  /\ m_allocated_chunks' = h.allocated
  /\ m_freed_chunks' = h.freed
  /\ deleted' = h.deleted

\* new Chunk: the next descriptor id
NewId(h) == Len(h.chunk) + 1

\* The struct Chunk (chunk.hpp) is not among the sources; its fields are the ones
\* the code uses, and a new descriptor starts unmarked (spec, section 4.2).
NewChunk(start, size) == [start |-> start, size |-> size, marked |-> FALSE]

\* ---- Heap::mark ----
\* (mutation: the bound of the scan ignored, the first chunk of the work list marked)
mark_first(im, start, end, work_list, ch) ==
  IF work_list = <<>> THEN ch
  ELSE [ch EXCEPT ![work_list[1]].marked = TRUE]

RECURSIVE mark(_, _, _, _, _)
mark(im, start, end, work_list, ch) ==
  IF ~(start < end) THEN ch
  ELSE
    LET hits == {i \in 1..Len(work_list) :
                   /\ ch[work_list[i]].start <= start
                   /\ start < ChunkEnd(im, ch[work_list[i]])
                   /\ ~ch[work_list[i]].marked}
    IN IF hits = {} THEN mark(im, start + WordSize, end, work_list, ch)
       ELSE LET i == MinOf(hits)
                c == work_list[i]
            IN mark(im, ChunkEnd(im, ch[c]), end, RemoveAt(work_list, i),
                    [ch EXCEPT ![c].marked = TRUE])

\* ---- Heap::sweep (lib/heap.cpp) ----
\* (mutation: the test of the mark bit inverted)
sweep_inverted(h) ==
  LET unmarked(c) == ~h.chunk[c].marked
      isMarked(c) == h.chunk[c].marked
  IN [h EXCEPT !.freed = h.freed \o SelectSeq(h.allocated, isMarked),
               !.allocated = SelectSeq(h.allocated, unmarked)]

sweep(h) ==
  LET unmarked(c) == ~h.chunk[c].marked
      isMarked(c) == h.chunk[c].marked
  IN [h EXCEPT !.freed = h.freed \o SelectSeq(h.allocated, unmarked),
               !.allocated = SelectSeq(h.allocated, isMarked)]

\* ---- Heap::compact (heap.cpp) ----
\* (mutation: the comparison reversed)
compareChunks_desc(ch, c1, c2) == ch[c1].start > ch[c2].start

compareChunks(ch, c1, c2) == ch[c1].start < ch[c2].start

RECURSIVE InsertSorted(_, _, _)
InsertSorted(ch, s, c) ==
  IF s = <<>> THEN <<c>>
  ELSE IF compareChunks(ch, c, Head(s)) THEN <<c>> \o s
  ELSE <<Head(s)>> \o InsertSorted(ch, Tail(s), c)

RECURSIVE SortChunks(_, _)
SortChunks(ch, s) ==
  IF s = <<>> THEN <<>>
  ELSE InsertSorted(ch, SortChunks(ch, SubSeq(s, 1, Len(s) - 1)), s[Len(s)])

RECURSIVE Slide(_, _, _)
Slide(ch, s, heap_curr) ==
  IF s = <<>> THEN ch
  ELSE LET c == Head(s)
       IN Slide([ch EXCEPT ![c].start = heap_curr], Tail(s), heap_curr + ch[c].size)

compact(h) ==
  LET sorted == SortChunks(h.chunk, h.allocated)
  IN [h EXCEPT !.allocated = sorted,
               !.chunk = Slide(h.chunk, sorted, ArenaBase)]

\* ---- the release loop at the end of collect ----
\* (mutation: the descriptors deleted but left in the free list)
release_keep(h) ==
  [h EXCEPT !.deleted = h.deleted \cup Range(h.freed)]

release(h) ==
  [h EXCEPT !.deleted = h.deleted \cup Range(h.freed), !.freed = <<>>]

\* ---- Heap::collect() ----
\* heap.cpp scans up to __builtin_frame_address(10); that call walks ten frames
\* up whether or not they exist, so its value is any frame address at or above
\* the current one, or null where the chain ends.
StackEnds(im) ==
  IF im = "lib" THEN {Null}
  ELSE {Null} \cup {StackStart + WordSize * k : k \in 0..StackWords}

collect(im, h, end) ==
  LET marked == [h EXCEPT !.chunk = mark(im, StackStart, end, h.allocated, h.chunk)]
  IN IF im = "lib" THEN release(sweep(marked))
     ELSE release(compact(marked))

\* ---- Heap::collect(uint flags) (lib/heap.cpp) ----
\* (mutation: the release loop placed before the sweep)
collect_flags_free_first(h, flags) ==
  LET h1 == IF Bit(flags, FREE) THEN release(h) ELSE h
  IN IF Bit(flags, SWEEP) THEN sweep(h1) ELSE h1

collect_flags(h, flags) ==
  LET h1 == IF Bit(flags, MARK)
            THEN [h EXCEPT !.chunk = mark("lib", StackStart, Null, h.allocated, h.chunk)]
            ELSE h
      h2 == IF Bit(flags, SWEEP) THEN sweep(h1) ELSE h1
  IN IF Bit(flags, FREE) THEN release(h2) ELSE h2

\* ---- Heap::alloc, after the capacity check ----
FirstFit(h, size) ==
  {i \in 1..Len(h.freed) :
     /\ h.chunk[h.freed[i]].size >= size
     /\ \A j \in 1..(i - 1) : h.chunk[h.freed[j]].size < size}

alloc_split(im, h, i, size) ==
  LET cp == h.freed[i]
      diff == h.chunk[cp].size - size
      chunk_complement == NewChunk(ChunkEnd(im, h.chunk[cp]), diff)
  IN [h EXCEPT !.chunk = Append(h.chunk, chunk_complement),
               !.freed = Append(RemoveAt(h.freed, i), NewId(h)),
               !.allocated = Append(h.allocated, cp)]

\* (mutation: the chunk pushed to allocated without the erase from freed)
alloc_take_keep(h, i) ==
  [h EXCEPT !.allocated = Append(h.allocated, h.freed[i])]

alloc_take(h, i) ==
  [h EXCEPT !.freed = RemoveAt(h.freed, i),
            !.allocated = Append(h.allocated, h.freed[i])]

\* (mutation: m_size = size instead of m_size += size)
alloc_bump_assign(im, h, size) ==
  LET new_chunk == NewChunk(ArenaBase + StartElem(im) * h.m_size, size)
  IN [h EXCEPT !.chunk = Append(h.chunk, new_chunk),
               !.m_size = size,
               !.allocated = Append(h.allocated, NewId(h))]

alloc_bump(im, h, size) ==
  LET new_chunk == NewChunk(ArenaBase + StartElem(im) * h.m_size, size)
  IN [h EXCEPT !.chunk = Append(h.chunk, new_chunk),
               !.m_size = h.m_size + size,
               !.allocated = Append(h.allocated, NewId(h))]

alloc_body(im, h, size) ==
  IF FirstFit(h, size) # {}
  THEN LET i == MinOf(FirstFit(h, size))
       IN IF h.chunk[h.freed[i]].size > size
          THEN alloc_split(im, h, i, size)
          ELSE alloc_take(h, i)
  ELSE alloc_bump(im, h, size)

\* the address alloc returns: the start of the chunk it pushed last
alloc_ret(h) == h.chunk[h.allocated[Len(h.allocated)]].start

Call(op, size, flags, ret, gc, how) ==
  [op |-> op, size |-> size, flags |-> flags, ret |-> ret, gc |-> gc, how |-> how]

\* no activation of mark: in Spec a collect is one step
NoScan ==
  [pc |-> "idle", via |-> "none", start |-> Null, end |-> Null, work_list |-> <<>>,
   start0 |-> Null, marked0 |-> {}]

\* ---- state machine ----
Init ==
  /\ impl \in Impls
  /\ m_size = 0
  /\ chunk = <<>>
  /\ m_allocated_chunks = <<>>
  /\ m_freed_chunks = <<>>
  /\ deleted = {}
  /\ stack = [i \in 1..StackWords |-> Null]
  /\ status = "running"
  /\ last = Call("init", 0, 0, Null, FALSE, "none")
  /\ handed = <<>>
  /\ collected = FALSE
  /\ scan = NoScan

Running == status = "running" /\ Len(handed) < MaxAllocs

\* (mutation: the capacity check off by one)
OverCapacity_ge(h, size) == h.m_size + size >= HEAP_SIZE

\* heap.m_size + size > HEAP_SIZE
OverCapacity(h, size) == h.m_size + size > HEAP_SIZE

\* assert(size > 0) fails
AllocInvalid(size) ==
  /\ Running
  /\ size = 0
  /\ status' = "aborted"
  /\ last' = Call("alloc", size, 0, Null, FALSE, "InvalidRequest")
  /\ UNCHANGED <<impl, m_size, chunk, m_allocated_chunks, m_freed_chunks,
                 deleted, stack, handed, collected, scan>>

\* heap.m_size + size > HEAP_SIZE: collect() runs, then the assert on the
\* copy `heap` taken before the collect fails.
AllocOutOfMemory(size) ==
  /\ Running
  /\ size > 0
  /\ OverCapacity(TheHeap, size)
  /\ \E end \in StackEnds(impl) : Install(collect(impl, TheHeap, end))
  /\ status' = "aborted"
  /\ collected' = TRUE
  /\ last' = Call("alloc", size, 0, Null, TRUE, "OutOfMemory")
  /\ UNCHANGED <<impl, stack, handed, scan>>

AllocOk(size) ==
  /\ Running
  /\ size > 0
  /\ ~OverCapacity(TheHeap, size)
  /\ LET h == alloc_body(impl, TheHeap, size)
         how == IF FirstFit(TheHeap, size) = {} THEN "bump"
                ELSE IF chunk[m_freed_chunks[MinOf(FirstFit(TheHeap, size))]].size > size
                     THEN "split" ELSE "take"
     IN /\ Install(h)
        /\ last' = Call("alloc", size, 0, alloc_ret(h), FALSE, how)
        /\ handed' = Append(handed, [addr |-> alloc_ret(h), size |-> size])
  /\ UNCHANGED <<impl, stack, status, collected, scan>>

Alloc(size) == AllocInvalid(size) \/ AllocOutOfMemory(size) \/ AllocOk(size)

Collect ==
  /\ status = "running"
  /\ \E end \in StackEnds(impl) : Install(collect(impl, TheHeap, end))
  /\ collected' = TRUE
  /\ last' = Call("collect", 0, COLLECT_ALL, Null, TRUE, "none")
  /\ UNCHANGED <<impl, stack, status, handed, scan>>

CollectFlags(flags) ==
  /\ status = "running"
  /\ impl = "lib"
  /\ Install(collect_flags(TheHeap, flags))
  /\ collected' = TRUE
  /\ last' = Call("collect_flags", 0, flags, Null, TRUE, "none")
  /\ UNCHANGED <<impl, stack, status, handed, scan>>

\* The mutator keeps or drops a reference: a stack word is overwritten with
\* null or with an address inside a chunk it was handed (its first or last byte).
Roots ==
  {Null} \cup UNION {{chunk[c].start, chunk[c].start + chunk[c].size - 1} :
                       c \in Range(m_allocated_chunks)}

Store(i, w) ==
  /\ status = "running"
  /\ stack[i] # w
  /\ stack' = [stack EXCEPT ![i] = w]
  /\ last' = Call("store", 0, 0, Null, FALSE, "none")
  /\ UNCHANGED <<impl, m_size, chunk, m_allocated_chunks, m_freed_chunks,
                 deleted, status, handed, collected, scan>>

Next ==
  \/ \E size \in Sizes : Alloc(size)
  \/ Collect
  \/ \E flags \in Flags : CollectFlags(flags)
  \/ \E i \in 1..StackWords : \E w \in Roots : Store(i, w)

Spec == Init /\ [][Next]_vars

\* ---- Heap::sweep on its own ----
\* The inputs of sweep: a heap of lib/heap.cpp as bump allocation lays it out,
\* every chunk either in allocated or in freed, and any assignment of mark bits
\* to the allocated chunks.
RECURSIVE BumpLayout(_, _)
BumpLayout(sizes, marks) ==
  IF sizes = <<>> THEN <<>>
  ELSE LET n == Len(sizes)
           before == BumpLayout(SubSeq(sizes, 1, n - 1), SubSeq(marks, 1, n - 1))
       IN Append(before,
                 [start |-> ArenaBase + StartElem("lib") * SumSizes(before, [i \in 1..(n - 1) |-> i]),
                  size |-> sizes[n], marked |-> marks[n]])

InitSweep ==
  \E n \in 0..MaxAllocs :
    \E sizes \in [1..n -> {1, 2}], marks \in [1..n -> BOOLEAN], live \in [1..n -> BOOLEAN] :
      LET isLive(i) == live[i]
          isFree(i) == ~live[i]
          ids == [i \in 1..n |-> i]
      IN /\ \A i \in 1..n : marks[i] => live[i]
         /\ impl = "lib"
         /\ chunk = BumpLayout(sizes, marks)
         /\ m_size = SumSizes(chunk, ids)
         /\ m_allocated_chunks = SelectSeq(ids, isLive)
         /\ m_freed_chunks = SelectSeq(ids, isFree)
         /\ deleted = {}
         /\ stack = [i \in 1..StackWords |-> Null]
         /\ status = "running"
         /\ last = Call("init", 0, 0, Null, FALSE, "none")
         /\ handed = [i \in 1..n |-> [addr |-> chunk[i].start, size |-> chunk[i].size]]
         /\ collected = FALSE
         /\ scan = NoScan

SweepStep ==
  /\ status = "running"
  /\ Install(sweep(TheHeap))
  /\ last' = Call("sweep", 0, SWEEP, Null, FALSE, "none")
  /\ UNCHANGED <<impl, stack, status, handed, collected, scan>>

NextSweep == SweepStep

SpecSweep == InitSweep /\ [][NextSweep]_vars

\* ---- Heap::mark step by step, inside one collect ----
\* One iteration of the outer loop of mark is one step; the inner loop over the
\* work list is the choice of the first chunk that contains the scan address
\* and is unmarked.
ScanStarts == {ArenaBase - WordSize, ArenaBase + 1}
ScanEnds == {Null, ArenaBase + WordSize, ArenaBase + 3 * WordSize}

mark_hits(im, start, work_list, ch) ==
  {i \in 1..Len(work_list) :
     /\ ch[work_list[i]].start <= start
     /\ start < ChunkEnd(im, ch[work_list[i]])
     /\ ~ch[work_list[i]].marked}

\* (mutation: the recursive call made without marking, erasing or advancing)
mark_call_unmarked(im, sc, ch) ==
  [scan |-> [sc EXCEPT !.via = "call"], chunk |-> ch]

\* the body of the innermost if: mark, erase, recurse from the chunk's end
mark_call(im, sc, ch) ==
  LET i == MinOf(mark_hits(im, sc.start, sc.work_list, ch))
      c == sc.work_list[i]
  IN [scan |-> [sc EXCEPT !.via = "call",
                          !.start = ChunkEnd(im, ch[c]),
                          !.work_list = RemoveAt(sc.work_list, i)],
      chunk |-> [ch EXCEPT ![c].marked = TRUE]]

RECURSIVE MarkLayout(_, _, _)
MarkLayout(im, sizes, marks) ==
  IF sizes = <<>> THEN <<>>
  ELSE LET n == Len(sizes)
           before == MarkLayout(im, SubSeq(sizes, 1, n - 1), SubSeq(marks, 1, n - 1))
       IN Append(before,
                 [start |-> ArenaBase + StartElem(im) * SumSizes(before, [i \in 1..(n - 1) |-> i]),
                  size |-> sizes[n], marked |-> marks[n]])

\* collect has just called mark(start, end, m_allocated_chunks)
InitMark ==
  \E im \in Impls, n \in 1..MaxAllocs, s \in ScanStarts, e \in ScanEnds :
    \E sizes \in [1..n -> {1, 2}], marks \in [1..n -> BOOLEAN] :
      /\ impl = im
      /\ chunk = MarkLayout(im, sizes, marks)
      /\ m_size = SumSizes(chunk, [i \in 1..n |-> i])
      /\ m_allocated_chunks = [i \in 1..n |-> i]
      /\ m_freed_chunks = <<>>
      /\ deleted = {}
      /\ stack = [i \in 1..StackWords |-> Null]
      /\ status = "running"
      /\ last = Call("init", 0, 0, Null, FALSE, "none")
      /\ handed = [i \in 1..n |-> [addr |-> chunk[i].start, size |-> chunk[i].size]]
      /\ collected = FALSE
      /\ scan = [pc |-> "mark", via |-> "enter", start |-> s, end |-> e,
                 work_list |-> m_allocated_chunks,
                 start0 |-> s, marked0 |-> {i \in 1..n : marks[i]}]

\* start++ : no chunk of the work list takes the address
MarkAdvance ==
  /\ scan.pc = "mark"
  /\ scan.start < scan.end
  /\ mark_hits(impl, scan.start, scan.work_list, chunk) = {}
  /\ scan' = [scan EXCEPT !.via = "next", !.start = scan.start + WordSize]
  /\ UNCHANGED <<impl, m_size, chunk, m_allocated_chunks, m_freed_chunks,
                 deleted, stack, status, last, handed, collected>>

MarkRecurse ==
  /\ scan.pc = "mark"
  /\ scan.start < scan.end
  /\ mark_hits(impl, scan.start, scan.work_list, chunk) # {}
  /\ LET r == mark_call(impl, scan, chunk)
     IN scan' = r.scan /\ chunk' = r.chunk
  /\ UNCHANGED <<impl, m_size, m_allocated_chunks, m_freed_chunks,
                 deleted, stack, status, last, handed, collected>>

\* the loop condition fails: this activation returns, and so does each of its
\* callers, whose call is followed by return
MarkReturn ==
  /\ scan.pc = "mark"
  /\ ~(scan.start < scan.end)
  /\ scan' = [scan EXCEPT !.pc = "marked", !.via = "return"]
  /\ UNCHANGED <<impl, m_size, chunk, m_allocated_chunks, m_freed_chunks,
                 deleted, stack, status, last, handed, collected>>

\* the phases of collect that follow mark
CollectFinish ==
  /\ scan.pc = "marked"
  /\ Install(IF impl = "lib" THEN release(sweep(TheHeap))
             ELSE release(compact(TheHeap)))
  /\ scan' = [scan EXCEPT !.pc = "done"]
  /\ last' = Call("collect", 0, COLLECT_ALL, Null, TRUE, "none")
  /\ collected' = TRUE
  /\ UNCHANGED <<impl, stack, status, handed>>

NextMark == MarkAdvance \/ MarkRecurse \/ MarkReturn \/ CollectFinish

\* collect runs on the one thread of the program and is never suspended
SpecMark == InitMark /\ [][NextMark]_vars /\ WF_vars(NextMark)

\* ---- vocabulary of the properties ----
\* the bytes a chunk describes: [start, start + size)
Extent(c) == c.start .. (c.start + c.size - 1)

Overlap(c1, c2) == Extent(c1) \cap Extent(c2) # {}

InArena(addr, size) == ArenaBase <= addr /\ addr + size <= ArenaBase + HEAP_SIZE

RECURSIVE SumHanded(_)
SumHanded(s) == IF s = <<>> THEN 0 ELSE Head(s).size + SumHanded(Tail(s))

\* a stack word lies inside the chunk (what a conservative scan counts as a reference)
Referenced(c) == \E i \in 1..StackWords : c.start <= stack[i] /\ stack[i] < c.start + c.size

\* the phases the call of the last step ran
Phases(im, l) ==
  IF l.op = "collect_flags"
  THEN (IF Bit(l.flags, MARK) THEN {"mark"} ELSE {})
       \cup (IF Bit(l.flags, SWEEP) THEN {"sweep"} ELSE {})
       \cup (IF Bit(l.flags, FREE) THEN {"free"} ELSE {})
  ELSE IF l.gc THEN (IF im = "lib" THEN {"mark", "sweep", "free"}
                     ELSE {"mark", "compact", "free"})
  ELSE {}

\* this step is a call of alloc / a collect call that returned to its caller
AllocStep == last'.op = "alloc" /\ (handed' # handed \/ status' # status)
CollectStep == last'.gc /\ status = "running" /\ status' = "running"

\* C1: on a fresh heap, with no collect so far and sizes summing to at most
\* HEAP_SIZE, the regions alloc returned are pairwise disjoint and inside the arena
\* (both implementations).
C1_Claim ==
  (~collected /\ SumHanded(handed) <= HEAP_SIZE) =>
    /\ \A i, j \in 1..Len(handed) :
         i < j => (handed[i].addr .. (handed[i].addr + handed[i].size - 1))
                    \cap (handed[j].addr .. (handed[j].addr + handed[j].size - 1)) = {}
    /\ \A i \in 1..Len(handed) : InArena(handed[i].addr, handed[i].size)

\* C2: allocated chunks are pairwise disjoint, freed chunks are pairwise disjoint,
\* and no allocated chunk overlaps a freed chunk.
C2_Claim ==
  status = "running" =>
    /\ \A i, j \in 1..Len(m_allocated_chunks) :
         i < j => ~Overlap(chunk[m_allocated_chunks[i]], chunk[m_allocated_chunks[j]])
    /\ \A i, j \in 1..Len(m_freed_chunks) :
         i < j => ~Overlap(chunk[m_freed_chunks[i]], chunk[m_freed_chunks[j]])
    /\ \A i \in 1..Len(m_allocated_chunks) : \A j \in 1..Len(m_freed_chunks) :
         ~Overlap(chunk[m_allocated_chunks[i]], chunk[m_freed_chunks[j]])

\* C3: when alloc(size) finds a freed chunk c with c.size > size, the chunk moved
\* to allocated has start = c.start and size = size, and the remainder put into
\* freed has start = c.start + size and size = c.size - size.
C3_Claim ==
  [][(AllocStep /\ status' = "running" /\ FirstFit(TheHeap, last'.size) # {})
       => LET c == chunk[m_freed_chunks[MinOf(FirstFit(TheHeap, last'.size))]]
              a == chunk'[m_allocated_chunks'[Len(m_allocated_chunks')]]
              r == chunk'[m_freed_chunks'[Len(m_freed_chunks')]]
          IN c.size > last'.size =>
               /\ last'.ret = c.start
               /\ a.start = c.start /\ a.size = last'.size
               /\ r.start = c.start + last'.size /\ r.size = c.size - last'.size]_vars

\* C4: every chunk in allocated or freed satisfies arena_base <= start and
\* start + size <= arena_base + m_size.
C4_Claim ==
  status = "running" =>
    \A id \in Range(m_allocated_chunks) \cup Range(m_freed_chunks) :
      ArenaBase <= chunk[id].start /\ chunk[id].start + chunk[id].size <= ArenaBase + m_size

\* C5: every byte of [arena_base, arena_base + m_size) is covered by exactly one
\* chunk of allocated and freed together.
C5_Claim ==
  status = "running" =>
    \A b \in ArenaBase .. (ArenaBase + m_size - 1) :
      Cardinality({i \in 1..Len(m_allocated_chunks) : b \in Extent(chunk[m_allocated_chunks[i]])})
      + Cardinality({j \in 1..Len(m_freed_chunks) : b \in Extent(chunk[m_freed_chunks[j]])}) = 1

\* C6: a collect that runs mark and sweep keeps every allocated chunk that some
\* word of the scanned stack points into.
C6_Claim ==
  [][(CollectStep /\ {"mark", "sweep"} \subseteq Phases(impl, last'))
       => \A id \in Range(m_allocated_chunks) :
            Referenced(chunk[id]) => id \in Range(m_allocated_chunks')]_vars

\* C7: after sweep, whatever the mark bits were when it started, no chunk in
\* allocated and no chunk in freed has marked = true.  (Checked under SpecSweep.)
C7_Claim ==
  last.op = "sweep" =>
    \A id \in Range(m_allocated_chunks) \cup Range(m_freed_chunks) : ~chunk[id].marked

\* the allocated chunks a stack word points into, and the rest
LiveChunks ==
  LET live(id) == Referenced(chunk[id]) IN SelectSeq(m_allocated_chunks, live)

DeadChunks ==
  LET dead(id) == ~Referenced(chunk[id]) IN SelectSeq(m_allocated_chunks, dead)

\* C8: alloc(size) with m_size + size > HEAP_SIZE, on an arena that holds a
\* reachable chunk and unreachable chunks whose reclamation makes room for size,
\* runs collect and then returns a valid arena address instead of failing.
C8_Claim ==
  [][(/\ AllocStep
      /\ last'.size > 0
      /\ m_size + last'.size > HEAP_SIZE
      /\ LiveChunks # <<>> /\ DeadChunks # <<>>
      /\ SumSizes(chunk, LiveChunks) + last'.size <= HEAP_SIZE)
       => /\ last'.gc
          /\ status' = "running"
          /\ InArena(last'.ret, last'.size)]_vars

\* C9: alloc runs collect only when m_size + size > HEAP_SIZE and no freed chunk
\* is large enough; when a freed chunk is large enough the request is served by
\* first-fit reuse of it, with no collect and no OutOfMemory.
C9_Claim ==
  [][(AllocStep /\ last'.size > 0)
       => /\ last'.gc => (m_size + last'.size > HEAP_SIZE /\ FirstFit(TheHeap, last'.size) = {})
          /\ FirstFit(TheHeap, last'.size) # {}
               => /\ ~last'.gc
                  /\ status' = "running"
                  /\ last'.ret = chunk[m_freed_chunks[MinOf(FirstFit(TheHeap, last'.size))]].start]_vars

\* allocated is sorted by start and tiles [arena_base, arena_base + bump)
Tiled(ch, s, bump) ==
  /\ \A i \in 1..Len(s) : ch[s[i]].start = ArenaBase + SumSizes(ch, SubSeq(s, 1, i - 1))
  /\ bump = SumSizes(ch, s)

\* C10: after a collect that includes compaction the allocated chunks are sorted
\* by start and tile [arena_base, arena_base + m_size), m_size is the sum of the
\* sizes of the chunks that were live (referenced from the stack) at the collect,
\* and freed is empty.
C10_Claim ==
  [][(CollectStep /\ "compact" \in Phases(impl, last'))
       => /\ Tiled(chunk', m_allocated_chunks', m_size')
          /\ m_size' = SumSizes(chunk, LiveChunks)
          /\ m_freed_chunks' = <<>>]_vars

\* the allocated chunks lie back to back from the arena base, in vector order
Compacted(ch, s) ==
  \A i \in 1..Len(s) : ch[s[i]].start = ArenaBase + SumSizes(ch, SubSeq(s, 1, i - 1))

\* the third bit of the mask: Compact in the spec's phase order, MARK_SWEEP in
\* the enum of heap.hpp
CompactBit == MARK_SWEEP

FlagsStep == last'.op = "collect_flags" /\ status = "running"

\* the chunks a sweep selected by the mask of this step moves to freed
SweptBy(f) ==
  IF Bit(f, SWEEP) THEN {id \in Range(m_allocated_chunks) : ~chunk[id].marked} ELSE {}

\* what collect(flags) does with the bits MARK, SWEEP and FREE
PhasesOfMask(f) ==
  /\ ~Bit(f, MARK) => chunk' = chunk
  /\ ~Bit(f, SWEEP) => m_allocated_chunks' = m_allocated_chunks
  /\ Range(m_allocated_chunks') = Range(m_allocated_chunks) \ SweptBy(f)
  /\ IF Bit(f, FREE)
     THEN /\ m_freed_chunks' = <<>>
          /\ deleted' = deleted \cup Range(m_freed_chunks) \cup SweptBy(f)
     ELSE /\ deleted' = deleted
          /\ Range(m_freed_chunks') = Range(m_freed_chunks) \cup SweptBy(f)

Held(r) == Referenced([start |-> r.addr, size |-> r.size])

\* the call before this step was a collect of all phases
AfterFullCollect ==
  last.op = "collect" \/ (last.op = "collect_flags" /\ last.flags = COLLECT_ALL)

\* C12: after a = alloc(n), b = alloc(n) with b held on the stack and a not, and a
\* full collect, c = alloc(n) returns a, allocated holds exactly the chunks of b
\* and c, and freed is empty.
C12_Claim ==
  [][(/\ AllocStep
      /\ Len(handed) = 2
      /\ handed[1].size = handed[2].size /\ last'.size = handed[1].size
      /\ handed[1].addr # handed[2].addr
      /\ Held(handed[2]) /\ ~Held(handed[1])
      /\ AfterFullCollect)
       => /\ status' = "running"
          /\ last'.ret = handed[1].addr
          /\ {<<chunk'[id].start, chunk'[id].size>> : id \in Range(m_allocated_chunks')}
               = {<<handed[1].addr, handed[1].size>>, <<handed[2].addr, handed[2].size>>}
          /\ Len(m_allocated_chunks') = 2
          /\ m_freed_chunks' = <<>>]_vars

\* C13: on a fresh heap alloc(HEAP_SIZE) succeeds and leaves m_size = HEAP_SIZE;
\* alloc(s) with s > HEAP_SIZE runs collect once and fails with OutOfMemory,
\* adding no chunk and leaving m_size as it was.
C13_Theorem ==
  [][AllocStep =>
       /\ (m_size = 0 /\ chunk = <<>> /\ last'.size = HEAP_SIZE)
            => /\ status' = "running"
               /\ m_size' = HEAP_SIZE
               /\ last'.ret = ArenaBase
               /\ Len(m_allocated_chunks') = 1
       /\ last'.size > HEAP_SIZE
            => /\ status' = "aborted"
               /\ last'.how = "OutOfMemory" /\ last'.gc
               /\ m_size' = m_size
               /\ chunk' = chunk
               /\ Range(m_allocated_chunks') \subseteq Range(m_allocated_chunks)]_vars

\* alloc(HEAP_SIZE) filled the fresh heap, then alloc(HEAP_SIZE + 1) failed
C13_Witness ==
  /\ status = "aborted"
  /\ last.how = "OutOfMemory" /\ last.size = HEAP_SIZE + 1
  /\ handed = <<[addr |-> ArenaBase, size |-> HEAP_SIZE]>>
  /\ m_size = HEAP_SIZE

\* the position of x in a sequence without repetitions
Pos(s, x) == CHOOSE i \in 1..Len(s) : s[i] = x

\* t holds elements of s in the order they have in s
InOrderOf(s, t) ==
  \A i, j \in 1..Len(t) : i < j => Pos(s, t[i]) < Pos(s, t[j])

\* C14: sweep partitions allocated by mark bit and does nothing else: freed
\* becomes the old freed list followed by exactly the unmarked chunks of
\* allocated, allocated keeps exactly the marked chunks in their order, and no
\* descriptor is created, destroyed, duplicated or changed; m_size is unchanged.
\* (Checked under SpecSweep.)
C14_Theorem ==
  [][last'.op = "sweep" =>
       LET moved == SubSeq(m_freed_chunks', Len(m_freed_chunks) + 1, Len(m_freed_chunks'))
       IN /\ Len(m_freed_chunks') >= Len(m_freed_chunks)
          /\ SubSeq(m_freed_chunks', 1, Len(m_freed_chunks)) = m_freed_chunks
          /\ Range(moved) = {id \in Range(m_allocated_chunks) : ~chunk[id].marked}
          /\ Range(m_allocated_chunks') = {id \in Range(m_allocated_chunks) : chunk[id].marked}
          /\ Len(m_allocated_chunks') + Len(moved) = Len(m_allocated_chunks)
          /\ InOrderOf(m_allocated_chunks, m_allocated_chunks')
          /\ InOrderOf(m_allocated_chunks, moved)
          /\ chunk' = chunk
          /\ m_size' = m_size
          /\ deleted' = deleted]_vars

\* a sweep that kept a marked chunk and moved an unmarked one behind an older
\* freed chunk
C14_Witness ==
  /\ last.op = "sweep"
  /\ \E id \in Range(m_allocated_chunks) : chunk[id].marked
  /\ Len(m_freed_chunks) >= 2
  /\ m_freed_chunks[1] > m_freed_chunks[2]

\* this step is an alloc served by the bump branch (no freed chunk fits)
BumpStep ==
  AllocStep /\ status' = "running" /\ FirstFit(TheHeap, last'.size) = {}

\* C15: m_size never decreases and stays in [0, HEAP_SIZE]; an alloc served by
\* the bump branch adds exactly its size, and no other step changes m_size
\* (reuse, mark, sweep, compact and the release loop leave it alone).
C15_Theorem ==
  [][/\ m_size <= m_size'
     /\ 0 <= m_size' /\ m_size' <= HEAP_SIZE
     /\ BumpStep => m_size' = m_size + last'.size
     /\ m_size' # m_size => BumpStep]_vars

\* the arena filled by a bump alloc after collections and a reuse-served alloc
C15_Witness ==
  /\ collected
  /\ last.op = "alloc" /\ last.how = "bump"
  /\ m_size = HEAP_SIZE
  /\ Len(handed) = 3
  /\ SumHanded(handed) > HEAP_SIZE

\* C16: mark terminates for every finite scan range and every allocated set.
\* A recursive call is made only after an unmarked chunk of the work list was
\* marked and erased from the list, and it resumes at a scan pointer strictly
\* greater than the current one; the marks left behind are those of the
\* recursive definition; and collect, run without suspension, completes.
MarkCallStep ==
  /\ scan'.via = "call"
  /\ scan' # scan

C16_Theorem ==
  /\ <>(scan.pc = "done")
  /\ [](scan.pc = "marked" =>
          LET before == [i \in 1..Len(chunk) |->
                           [chunk[i] EXCEPT !.marked = (i \in scan.marked0)]]
              after == mark(impl, scan.start0, scan.end, m_allocated_chunks, before)
          IN \A i \in 1..Len(chunk) : chunk[i] = after[i])
  /\ [][MarkCallStep =>
          /\ scan'.start > scan.start
          /\ Len(scan'.work_list) = Len(scan.work_list) - 1
          /\ \E c \in Range(scan.work_list) \ Range(scan'.work_list) :
               /\ ~chunk[c].marked /\ chunk'[c].marked
               /\ \A d \in DOMAIN chunk \ {c} : chunk'[d] = chunk[d]]_vars

\* a scan that recursed, marked every chunk of a three-chunk heap and returned
C16_Witness ==
  /\ scan.pc = "done"
  /\ scan.marked0 = {}
  /\ scan.work_list = <<>>
  /\ Len(chunk) = 3
  /\ \A i \in 1..3 : chunk[i].marked

\* C17: in lib/heap.cpp mark is called with the upper bound 0, so its loop never
\* runs: no step ever sets a mark bit, and every collect that runs sweep,
\* whatever the stack holds, leaves allocated empty, each chunk it held being
\* in freed or deleted afterwards.
SweepRun ==
  /\ status = "running"
  /\ last'.gc
  /\ "sweep" \in Phases(impl, last')

BumpOnly ==
  /\ m_freed_chunks = <<>>
  /\ m_size = SumHanded(handed)

KeepsFreed == last'.op = "collect_flags" /\ ~Bit(last'.flags, FREE)

C19_Theorem ==
  /\ [](impl = "heap" =>
          /\ m_freed_chunks = <<>>
          /\ deleted = {}
          /\ Len(m_allocated_chunks) = Len(handed)
          /\ \A i \in 1..Len(handed) :
               /\ m_allocated_chunks[i] = i
               /\ chunk[i].start = handed[i].addr
               /\ chunk[i].size = handed[i].size
          /\ Tiled(chunk, m_allocated_chunks, m_size))
  /\ [][(impl = "heap" /\ last'.gc) =>
          /\ chunk' = chunk
          /\ m_allocated_chunks' = m_allocated_chunks
          /\ m_freed_chunks' = m_freed_chunks
          /\ m_size' = m_size]_vars

\* heap.cpp: three chunks handed out, none referenced from the stack, and a
\* collect has just run
C19_Witness ==
  /\ impl = "heap"
  /\ last.op = "collect"
  /\ Len(handed) = 3
  /\ Len(m_allocated_chunks) = 3
  /\ stack[1] = Null

\* C20: descriptor ownership is exclusive. No descriptor occurs twice in
\* allocated or twice in freed, none is in both lists, and a deleted descriptor
\* is in neither list; a step deletes only descriptors a list held just before
\* the step, so none is deleted twice or used after its deletion.
NoDuplicates(s) == \A i, j \in 1..Len(s) : i < j => s[i] # s[j]

C20_Theorem ==
  /\ [](/\ NoDuplicates(m_allocated_chunks)
        /\ NoDuplicates(m_freed_chunks)
        /\ Range(m_allocated_chunks) \cap Range(m_freed_chunks) = {}
        /\ deleted \cap (Range(m_allocated_chunks) \cup Range(m_freed_chunks)) = {}
        /\ Range(m_allocated_chunks) \cup Range(m_freed_chunks) \cup deleted
             = DOMAIN chunk)
  /\ [][/\ deleted \subseteq deleted'
        /\ (deleted' \ deleted)
             \subseteq Range(m_allocated_chunks) \cup Range(m_freed_chunks)]_vars

\* lib/heap.cpp: one chunk deleted by an earlier collect, and an alloc that
\* just split a swept chunk, leaving one descriptor in each list
C20_Witness ==
  /\ impl = "lib"
  /\ deleted # {}
  /\ last.op = "alloc" /\ last.how = "split"
  /\ m_allocated_chunks # <<>>
  /\ m_freed_chunks # <<>>

====
